---- MODULE Spec2Model ----
(***************************************************************************)
(* Model of the bitext alignment orchestration of                          *)
(* src/pipelines/aligners/fast_align_pipeline.py (class FastAlignPipeline  *)
(* and main).  Text is modelled as sequences of one-character strings, so  *)
(* that splitting and integer parsing are computed, not assumed.           *)
(* Scores are exact rationals scaled by ScoreScale (a score of 0.7833 is   *)
(* the integer 7833).                                                      *)
(***************************************************************************)
EXTENDS Integers, Sequences, FiniteSets, TLC

\* ------------------------------------------------------------------ bounds

\* Number of sentence pairs held by the storage (pairs are 1..NumPairs).
NumPairs == 3
\* Largest batch_size / max_batches value a run is started with.
MaxBatchSize == 2
MaxMaxBatches == 2
\* Cap on batch_num: the loop of run_pipeline has no bound of its own.
MaxBatchNum == 3
\* Bounds of the inputs of calculate_alignment_score taken alone: entries of
\* the forward alignment, source and target index, token counts.
MaxScoreAlign == 3
MaxScoreSrcIndex == 2
MaxScoreTgtIndex == 1
MaxScoreTokens == 3

\* ------------------------------------------------------------------- text

Whitespace == {" "}

Digits == {"0", "1", "2", "3", "4", "5", "6", "7", "8", "9"}

DigitValue(c) ==
  CASE c = "0" -> 0 [] c = "1" -> 1 [] c = "2" -> 2 [] c = "3" -> 3
    [] c = "4" -> 4 [] c = "5" -> 5 [] c = "6" -> 6 [] c = "7" -> 7
    [] c = "8" -> 8 [] c = "9" -> 9

\* str.strip(): leading and trailing whitespace removed.
RECURSIVE LStrip(_)
LStrip(s) ==
  IF s # <<>> /\ Head(s) \in Whitespace THEN LStrip(Tail(s)) ELSE s

RECURSIVE RStrip(_)
RStrip(s) ==
  IF s # <<>> /\ s[Len(s)] \in Whitespace
  THEN RStrip(SubSeq(s, 1, Len(s) - 1)) ELSE s

Strip(s) == RStrip(LStrip(s))

\* Length of the longest prefix of s without a character of the set seps.
RECURSIVE PrefixLen(_, _)
PrefixLen(s, seps) ==
  IF s = <<>> \/ Head(s) \in seps THEN 0 ELSE 1 + PrefixLen(Tail(s), seps)

\* str.split() with no argument: the maximal runs of non-whitespace.
RECURSIVE SplitWhitespace(_)
SplitWhitespace(s) ==
  LET t == LStrip(s)
      k == PrefixLen(t, Whitespace)
  IN IF t = <<>> THEN <<>>
     ELSE <<SubSeq(t, 1, k)>> \o SplitWhitespace(SubSeq(t, k + 1, Len(t)))

\* str.split(sep) for a one-character sep: every separator cuts, empty
\* parts are kept (''.split('-') is ['']).
RECURSIVE SplitOn(_, _)
SplitOn(s, sep) ==
  LET k == PrefixLen(s, {sep})
  IN IF k = Len(s) THEN <<s>>
     ELSE <<SubSeq(s, 1, k)>> \o SplitOn(SubSeq(s, k + 2, Len(s)), sep)

\* int(s) accepts s: a non-empty run of decimal digits.
IsInt(s) == s # <<>> /\ \A i \in 1..Len(s) : s[i] \in Digits

RECURSIVE IntOf(_)
IntOf(s) ==
  IF s = <<>> THEN 0
  ELSE 10 * IntOf(SubSeq(s, 1, Len(s) - 1)) + DigitValue(s[Len(s)])

\* ------------------------------------------------ parse_alignment_output

\* TokenOK that unpacks the first two parts of any longer split.
TokenOK_IgnoresExtraParts(tok) ==
  LET parts == SplitOn(tok, "-")
  IN Len(parts) >= 2 /\ IsInt(parts[1]) /\ IsInt(parts[2])

\* "src, tgt = pair.split('-')" followed by int(src), int(tgt) raises
\* ValueError unless the token has exactly one '-' between two integers.
TokenOK(tok) ==
  LET parts == SplitOn(tok, "-")
  IN Len(parts) = 2 /\ IsInt(parts[1]) /\ IsInt(parts[2])

TokenPair(tok) ==
  LET parts == SplitOn(tok, "-") IN <<IntOf(parts[1]), IntOf(parts[2])>>

LineOK(line) ==
  LET toks == SplitWhitespace(Strip(line))
  IN \A i \in 1..Len(toks) : TokenOK(toks[i])

\* The entry of one line: [] for a blank line, else the pairs in token order.
ParseLine(line) ==
  LET toks == SplitWhitespace(Strip(line))
  IN [i \in 1..Len(toks) |-> TokenPair(toks[i])]

\* TRUE when parse_alignment_output raises on the file (a sequence of lines).
ParseRaises(file) == \E i \in 1..Len(file) : ~LineOK(file[i])

\* parse_alignment_output that passes over the blank lines.
parse_alignment_output_SkipsBlank(file) ==
  LET NotBlank(line) == Strip(line) # <<>>
      kept == SelectSeq(file, NotBlank)
  IN [i \in 1..Len(kept) |-> ParseLine(kept[i])]

\* The list parse_alignment_output returns when it does not raise.
parse_alignment_output(file) == [i \in 1..Len(file) |-> ParseLine(file[i])]

\* -------------------------------------------- calculate_alignment_score

ScoreScale == 10000

Min(a, b) == IF a <= b THEN a ELSE b
Max(a, b) == IF a >= b THEN a ELSE b

\* round(n / d, 0) for n >= 0, d > 0, ties to even.
RoundDiv(n, d) ==
  LET q == n \div d
      r == n % d
  IN IF 2 * r < d THEN q
     ELSE IF 2 * r > d THEN q + 1
     ELSE IF q % 2 = 0 THEN q ELSE q + 1

\* len(set(a[0] for a in alignments))
AlignedSrc(alignments) ==
  Cardinality({alignments[i][1] : i \in 1..Len(alignments)})

\* ScoreNumerator with the weights 0.4, 0.4, 0.2.
ScoreNumerator_OtherWeights(alignments, src_length, tgt_length) ==
  LET mx == Max(src_length, tgt_length)
      mn == Min(src_length, tgt_length)
  IN 8 * AlignedSrc(alignments) * mx
     + 4 * Min(Len(alignments), 2 * src_length) * mx
     + 4 * mn * src_length

\* score = 0.5 * coverage + 0.3 * density_score + 0.2 * length_ratio with
\*   coverage      = aligned_src / src_length
\*   density_score = min(len(alignments) / src_length, 2.0) / 2.0
\*   length_ratio  = min(src_length, tgt_length) / max(src_length, tgt_length)
\* over the common denominator 20 * src_length * max(src_length, tgt_length).
ScoreNumerator(alignments, src_length, tgt_length) ==
  LET mx == Max(src_length, tgt_length)
      mn == Min(src_length, tgt_length)
  IN 10 * AlignedSrc(alignments) * mx
     + 3 * Min(Len(alignments), 2 * src_length) * mx
     + 4 * mn * src_length

ScoreDenominator(src_length, tgt_length) ==
  20 * src_length * Max(src_length, tgt_length)

\* calculate_alignment_score without the test of tgt_length.
calculate_alignment_score_NoTgtTest(alignments, src_length, tgt_length) ==
  IF alignments = <<>> \/ src_length = 0 THEN 0
  ELSE RoundDiv(ScoreScale * ScoreNumerator(alignments, src_length, tgt_length),
                ScoreDenominator(src_length, tgt_length))

\* The score times ScoreScale: round(score, 4) keeps four decimals.
calculate_alignment_score(alignments, src_length, tgt_length) ==
  IF alignments = <<>> \/ src_length = 0 \/ tgt_length = 0 THEN 0
  ELSE RoundDiv(ScoreScale * ScoreNumerator(alignments, src_length, tgt_length),
                ScoreDenominator(src_length, tgt_length))

\* ---------------------------------------------------------------- corpus

Pairs == 1..NumPairs

\* pair['purepecha_text'] and pair['spanish_text'] of the stored pairs.
purepecha_text(p) ==
  CASE p = 1 -> <<"a", " ", "b">>
    [] p = 2 -> <<"a">>
    [] p = 3 -> <<>>
    [] OTHER -> <<"a", " ", "b", " ", "c">>

spanish_text(p) ==
  CASE p = 1 -> <<"x", " ", "y">>
    [] p = 2 -> <<"x">>
    [] p = 3 -> <<"x">>
    [] OTHER -> <<"x", " ", "y">>

\* ------------------------------------------------ storage (utils.database)

\* The first `limit` pairs without an alignment, in identifier order.
RECURSIVE SortedSeq(_)
SortedSeq(S) ==
  IF S = {} THEN <<>>
  ELSE LET m == CHOOSE x \in S : \A y \in S : x <= y
       IN <<m>> \o SortedSeq(S \ {m})

get_unaligned_sentence_pairs(alignedPairs, limit) ==
  LET all == SortedSeq(Pairs \ alignedPairs)
  IN SubSeq(all, 1, Min(limit, Len(all)))

\* --------------------------------------------- tracker (PipelineRunTracker)

NoRun ==
  [status |-> "created", items_processed |-> 0, items_succeeded |-> 0,
   items_failed |-> 0]

tracker_start_run(r) == [r EXCEPT !.status = "running"]

\* The totals given overwrite the ones recorded.
tracker_update_progress(r, processed, succeeded, failedCount) ==
  [r EXCEPT !.items_processed = processed, !.items_succeeded = succeeded,
            !.items_failed = failedCount]

tracker_complete_run(r, status) == [r EXCEPT !.status = status]

\* -------------------------------------------------------- the aligner

\* prepare_alignment_input: one "source ||| target" line per pair, in order.
prepare_alignment_input(pairs) ==
  [i \in 1..Len(pairs) |->
     purepecha_text(pairs[i]) \o <<" ", "|", "|", "|", " ">>
       \o spanish_text(pairs[i])]

\* Lines the aligner may write.
LineBlank == <<>>
LineOne == <<"0", "-", "0">>
LineTwo == <<"0", "-", "1", " ", "1", "-", "0">>
LineMalformed == <<"0", "-", "0", " ", "1">>

WellFormedLines == {LineBlank, LineTwo}

\* Files of n lines over the set L.
FilesOver(L, n) == [1..n -> L]

\* What a run of the aligner that exits with status 0 may leave in the
\* output file for an input of n lines: n well-formed lines, one line too
\* few, one line too many, or n lines with a malformed token in the last.
AlignerOutputs(n) ==
  FilesOver(WellFormedLines, n)
    \cup FilesOver({LineOne}, n - 1)
    \cup FilesOver({LineOne}, n + 1)
    \cup {[i \in 1..n |-> IF i = n THEN LineMalformed ELSE LineOne]}

\* Outcomes of subprocess.run(cmd, check=True): exit status 0, a non-zero
\* exit status (CalledProcessError), the process cannot be launched (OSError,
\* FileNotFoundError).
AlignerResults == {"ok", "nonzero", "launch"}

\* -------------------------------------------------------- store_alignments

\* ForwardEntries without the test of the target index.
RECURSIVE ForwardEntries_NoTargetTest(_, _, _)
ForwardEntries_NoTargetTest(fwd_align, src_tokens, tgt_tokens) ==
  IF fwd_align = <<>> THEN <<>>
  ELSE LET src == Head(fwd_align)[1]
           tgt == Head(fwd_align)[2]
           rest == ForwardEntries_NoTargetTest(Tail(fwd_align), src_tokens,
                                               tgt_tokens)
       IN IF src < Len(src_tokens)
          THEN <<[src_idx |-> src, tgt_idx |-> tgt,
                  src_token |-> src_tokens[src + 1],
                  tgt_token |-> IF tgt < Len(tgt_tokens)
                                THEN tgt_tokens[tgt + 1] ELSE <<>>]>> \o rest
          ELSE rest

\* Entries of the 'forward' list: the in-range pairs with their tokens.
RECURSIVE ForwardEntries(_, _, _)
ForwardEntries(fwd_align, src_tokens, tgt_tokens) ==
  IF fwd_align = <<>> THEN <<>>
  ELSE LET src == Head(fwd_align)[1]
           tgt == Head(fwd_align)[2]
           rest == ForwardEntries(Tail(fwd_align), src_tokens, tgt_tokens)
       IN IF src < Len(src_tokens) /\ tgt < Len(tgt_tokens)
          THEN <<[src_idx |-> src, tgt_idx |-> tgt,
                  src_token |-> src_tokens[src + 1],
                  tgt_token |-> tgt_tokens[tgt + 1]]>> \o rest
          ELSE rest

\* BackwardEntries that reads each pair as (src, tgt).
BackwardEntries_NotSwapped(bwd_align) ==
  [i \in 1..Len(bwd_align) |->
     [src_idx |-> bwd_align[i][1], tgt_idx |-> bwd_align[i][2]]]

\* Entries of the 'backward' list: "for tgt, src in bwd_align".
BackwardEntries(bwd_align) ==
  [i \in 1..Len(bwd_align) |->
     [src_idx |-> bwd_align[i][2], tgt_idx |-> bwd_align[i][1]]]

QualityThreshold == 7000

\* quality_status with the threshold 0.5.
quality_status_LowerThreshold(score) ==
  IF 2 * score >= ScoreScale THEN "auto_aligned" ELSE "raw"

quality_status(score) ==
  IF score >= QualityThreshold THEN "auto_aligned" ELSE "raw"

\* The arguments of the insert_alignment call for one zipped triple.
AlignmentRecord(pair, fwd_align, bwd_align) ==
  LET src_tokens == SplitWhitespace(purepecha_text(pair))
      tgt_tokens == SplitWhitespace(spanish_text(pair))
      score == calculate_alignment_score(fwd_align, Len(src_tokens),
                                         Len(tgt_tokens))
  IN [purepecha_sentence_id |-> pair,
      spanish_sentence_id |-> pair,
      alignment_method |-> "fast_align",
      alignment_score |-> score,
      word_alignments |->
        [forward |-> ForwardEntries(fwd_align, src_tokens, tgt_tokens),
         backward |-> BackwardEntries(bwd_align)],
      quality_status |-> quality_status(score)]

\* zip() stops at the shortest of its three arguments.
ZipLen(pairs, fwd, bwd) == Min(Len(pairs), Min(Len(fwd), Len(bwd)))

\* ------------------------------------------------------------------ state

\* max_batches=None (the default of run_pipeline and of --max-batches).
None == -1

VARIABLES
  pc,                  \* position of main / run_pipeline
  exc,                 \* the exception that ended main's work, "none" if none
  batch_size,          \* run_pipeline's arguments
  max_batches,
  batch_num,           \* run_pipeline's locals
  total_aligned,
  total_failed,
  sentence_pairs,
  forward_alignments,
  backward_alignments,
  idx,                 \* store_alignments: position of the zip, its counters
  successful,
  failed,
  temp_dir,            \* the files of the batch's temporary directory
  aligned,             \* storage: the pairs that have an alignment record
  record_count,        \* storage: alignment records inserted by this run
  last_insert,         \* storage: arguments of the insert made by this step
  run,                 \* tracker: the PipelineRun
  start_calls,         \* tracker: calls of start_run, update_progress,
  update_calls,        \*          complete_run
  complete_calls,
  failed_pairs,        \* history: pairs of batches that failed at the aligner
  aligner_succeeded,   \* history: some aligner invocation returned True
  fetch_log,           \* history: the size of every batch fetched so far
  aligner_calls,       \* history: invocations of the aligner on a batch
  invocations,         \* history: direction and outcome of the invocations
                       \*          made for the batch fetched last
  pa_pc,               \* parse_alignment_output taken alone: its input file,
  pa_file,             \* whether it raised, and the list it returned
  pa_raised,
  pa_result,
  sc_pc,               \* calculate_alignment_score taken alone: its inputs
  sc_alignments,       \* and its result
  sc_src_length,
  sc_tgt_length,
  sc_result

config == <<batch_size, max_batches>>
locals == <<batch_num, total_aligned, total_failed, sentence_pairs,
            forward_alignments, backward_alignments>>
store == <<idx, successful, failed>>
storage == <<aligned, record_count, last_insert>>
tracker == <<run, start_calls, update_calls, complete_calls>>
history == <<failed_pairs, aligner_succeeded>>
calls == <<fetch_log, aligner_calls, invocations>>
scorer == <<sc_pc, sc_alignments, sc_src_length, sc_tgt_length, sc_result>>
parser == <<pa_pc, pa_file, pa_raised, pa_result>>

vars == <<pc, exc, config, locals, store, temp_dir, storage, tracker,
          history, calls, scorer, parser>>

NoDir == [exists |-> FALSE]
NoInsert == [called |-> FALSE]

\* The temporary directory of a batch: which of its files exist, and the
\* lines of each.
Dir(input, forward, backward) ==
  [exists |-> TRUE, input_file |-> input, forward_output |-> forward,
   backward_output |-> backward]

ParserIdle ==
  /\ pa_pc = "idle"
  /\ pa_file = <<>>
  /\ pa_raised = FALSE
  /\ pa_result = <<>>

ScorerIdle ==
  /\ sc_pc = "idle"
  /\ sc_alignments = <<>>
  /\ sc_src_length = 0
  /\ sc_tgt_length = 0
  /\ sc_result = 0

\* The storage as a run finds it: nothing aligned yet, or nothing left.
AlignedAtStart == {{}, Pairs}

Init ==
  /\ pc = "construct"
  /\ exc = "none"
  /\ batch_size \in 1..MaxBatchSize
  /\ max_batches \in {None} \cup 0..MaxMaxBatches
  /\ batch_num = 0
  /\ total_aligned = 0
  /\ total_failed = 0
  /\ sentence_pairs = <<>>
  /\ forward_alignments = <<>>
  /\ backward_alignments = <<>>
  /\ idx = 0
  /\ successful = 0
  /\ failed = 0
  /\ temp_dir = NoDir
  /\ aligned \in AlignedAtStart
  /\ record_count = 0
  /\ last_insert = NoInsert
  /\ run = NoRun
  /\ start_calls = 0
  /\ update_calls = 0
  /\ complete_calls = 0
  /\ failed_pairs = {}
  /\ aligner_succeeded = FALSE
  /\ fetch_log = <<>>
  /\ aligner_calls = 0
  /\ invocations = <<>>
  /\ ScorerIdle
  /\ ParserIdle

\* ----------------------------------------------------------------- main

\* Construct with a constructor that logs FileNotFoundError and goes on.
Construct_SwallowsNotFound ==
  /\ pc = "construct"
  /\ \E found \in BOOLEAN :
       /\ pc' = "start_run"
       /\ exc' = IF found THEN exc ELSE "not_found"
  /\ last_insert' = NoInsert
  /\ UNCHANGED <<config, locals, store, temp_dir, aligned, record_count,
                 tracker, history, calls, scorer, parser>>

\* FastAlignPipeline.__init__: "fast_align -h" is run; FileNotFoundError is
\* logged and raised again, and main does not catch it.
Construct ==
  /\ pc = "construct"
  /\ \E found \in BOOLEAN :
       /\ pc' = IF found THEN "start_run" ELSE "aborted"
       /\ exc' = IF found THEN exc ELSE "not_found"
  /\ last_insert' = NoInsert
  /\ UNCHANGED <<config, locals, store, temp_dir, aligned, record_count,
                 tracker, history, calls, scorer, parser>>

\* --------------------------------------------------------- run_pipeline

\* Leaving run_pipeline: the locals are gone, and a "with" block that was
\* entered has removed its directory.
LeaveRun ==
  /\ batch_num' = 0
  /\ total_aligned' = 0
  /\ total_failed' = 0
  /\ sentence_pairs' = <<>>
  /\ forward_alignments' = <<>>
  /\ backward_alignments' = <<>>
  /\ idx' = 0
  /\ successful' = 0
  /\ failed' = 0
  /\ temp_dir' = NoDir

\* An exception leaves run_pipeline; main logs it.
Raise(e) ==
  /\ pc' = "raised"
  /\ exc' = e
  /\ LeaveRun

\* EndBatch that leaves the directory of the batch in place.
EndBatch_KeepsDir ==
  /\ pc' = "loop"
  /\ temp_dir' = temp_dir
  /\ forward_alignments' = <<>>
  /\ backward_alignments' = <<>>
  /\ idx' = 0
  /\ successful' = 0
  /\ failed' = 0

\* The end of the "with tempfile.TemporaryDirectory()" block, reached by
\* falling through or by "continue": the directory is removed.  The parsed
\* alignments and the counters of store_alignments are not read again before
\* they are assigned anew, and are reset here.
EndBatch ==
  /\ pc' = "loop"
  /\ temp_dir' = NoDir
  /\ forward_alignments' = <<>>
  /\ backward_alignments' = <<>>
  /\ idx' = 0
  /\ successful' = 0
  /\ failed' = 0

StartRun ==
  /\ pc = "start_run"
  /\ run' = tracker_start_run(run)
  /\ start_calls' = start_calls + 1
  /\ pc' = "loop"
  /\ last_insert' = NoInsert
  /\ UNCHANGED <<exc, config, locals, store, temp_dir, aligned, record_count,
                 update_calls, complete_calls, history, calls, scorer, parser>>

\* MaxBatchesReached where 0 is a cap as any other number.
MaxBatchesReached_ZeroIsCap ==
  max_batches # None /\ batch_num >= max_batches

\* MaxBatchesReached with ">" for ">=".
MaxBatchesReached_OffByOne ==
  max_batches # None /\ max_batches # 0 /\ batch_num > max_batches

\* "if max_batches and batch_num >= max_batches": None and 0 are falsy.
MaxBatchesReached ==
  max_batches # None /\ max_batches # 0 /\ batch_num >= max_batches

ReachMaxBatches ==
  /\ pc = "loop"
  /\ MaxBatchesReached
  /\ pc' = "complete"
  /\ last_insert' = NoInsert
  /\ UNCHANGED <<exc, config, locals, store, temp_dir, aligned, record_count,
                 tracker, history, calls, scorer, parser>>

\* AfterFetch without the break on an empty fetch.
AfterFetch_NoBreak(got) == "prepare"

\* "if not sentence_pairs: break": an empty fetch leaves the loop.
AfterFetch(got) == IF got = <<>> THEN "complete" ELSE "prepare"

\* batch_num += 1, then the fetch: it raises, returns no pair (break), or
\* returns the batch.
FetchBatch ==
  /\ pc = "loop"
  /\ ~MaxBatchesReached
  /\ batch_num < MaxBatchNum
  /\ last_insert' = NoInsert
  /\ \E fetched \in BOOLEAN :
       IF ~fetched
       THEN /\ Raise("fetch")
            /\ UNCHANGED <<config, aligned, record_count, tracker, history,
                           calls, scorer, parser>>
       ELSE LET got == get_unaligned_sentence_pairs(aligned, batch_size)
            IN /\ batch_num' = batch_num + 1
               /\ sentence_pairs' = got
               /\ fetch_log' = Append(fetch_log, Len(got))
               /\ invocations' = <<>>
               /\ pc' = AfterFetch(got)
               /\ UNCHANGED <<exc, config, total_aligned, total_failed,
                              forward_alignments, backward_alignments, store,
                              temp_dir, aligned, record_count, tracker,
                              history, aligner_calls, scorer, parser>>

\* The "with" block is entered and prepare_alignment_input writes input.txt.
PrepareInput ==
  /\ pc = "prepare"
  /\ temp_dir' = Dir(prepare_alignment_input(sentence_pairs), <<>>, <<>>)
  /\ pc' = "forward"
  /\ last_insert' = NoInsert
  /\ UNCHANGED <<exc, config, locals, store, aligned, record_count, tracker,
                 history, calls, scorer, parser>>

\* run_fast_align whose False is not tested by the batch loop.
run_fast_align_ResultIgnored(result, out, reverse) ==
  CASE result = "ok" ->
         /\ temp_dir' = IF reverse
                        THEN [temp_dir EXCEPT !.backward_output = out]
                        ELSE [temp_dir EXCEPT !.forward_output = out]
         /\ pc' = IF reverse THEN "parse_forward" ELSE "backward"
         /\ aligner_succeeded' = TRUE
         /\ UNCHANGED <<exc, locals, store, failed_pairs>>
    [] result = "nonzero" ->
         /\ pc' = IF reverse THEN "parse_forward" ELSE "backward"
         /\ UNCHANGED <<exc, locals, store, temp_dir, history>>
    [] result = "launch" ->
         /\ Raise("launch")
         /\ UNCHANGED history

\* run_fast_align, as the batch loop uses it.  result "ok": the output file
\* holds `out` and True is returned; "nonzero": CalledProcessError is caught
\* and False is returned, the batch is counted failed and "continue" leaves
\* the block; "launch": the exception is not caught by run_fast_align.
run_fast_align(result, out, reverse) ==
  CASE result = "ok" ->
         /\ temp_dir' = IF reverse
                        THEN [temp_dir EXCEPT !.backward_output = out]
                        ELSE [temp_dir EXCEPT !.forward_output = out]
         /\ pc' = IF reverse THEN "parse_forward" ELSE "backward"
         /\ aligner_succeeded' = TRUE
         /\ UNCHANGED <<exc, locals, store, failed_pairs>>
    [] result = "nonzero" ->
         /\ total_failed' = total_failed + Len(sentence_pairs)
         /\ failed_pairs' =
              failed_pairs \cup {sentence_pairs[i] : i \in 1..Len(sentence_pairs)}
         /\ EndBatch
         /\ UNCHANGED <<exc, batch_num, total_aligned, sentence_pairs,
                        aligner_succeeded>>
    [] result = "launch" ->
         /\ Raise("launch")
         /\ UNCHANGED history

RunForward ==
  /\ pc = "forward"
  /\ last_insert' = NoInsert
  /\ \E result \in AlignerResults :
       \E out \in IF result = "ok" THEN AlignerOutputs(Len(sentence_pairs))
                  ELSE {<<>>} :
         /\ run_fast_align(result, out, FALSE)
         /\ invocations' =
              Append(invocations, [reverse |-> FALSE, result |-> result])
  /\ aligner_calls' = aligner_calls + 1
  /\ UNCHANGED <<config, aligned, record_count, tracker, fetch_log, scorer,
                 parser>>

RunBackward ==
  /\ pc = "backward"
  /\ last_insert' = NoInsert
  /\ \E result \in AlignerResults :
       \E out \in IF result = "ok" THEN AlignerOutputs(Len(sentence_pairs))
                  ELSE {<<>>} :
         /\ run_fast_align(result, out, TRUE)
         /\ invocations' =
              Append(invocations, [reverse |-> TRUE, result |-> result])
  /\ aligner_calls' = aligner_calls + 1
  /\ UNCHANGED <<config, aligned, record_count, tracker, fetch_log, scorer,
                 parser>>

\* forward_alignments = self.parse_alignment_output(forward_output)
ParseForward ==
  /\ pc = "parse_forward"
  /\ last_insert' = NoInsert
  /\ IF ParseRaises(temp_dir.forward_output)
     THEN Raise("parse")
     ELSE /\ forward_alignments' = parse_alignment_output(temp_dir.forward_output)
          /\ pc' = "parse_backward"
          /\ UNCHANGED <<exc, batch_num, total_aligned, total_failed,
                         sentence_pairs, backward_alignments, store, temp_dir>>
  /\ UNCHANGED <<config, aligned, record_count, tracker, history, calls, scorer, parser>>

\* backward_alignments = self.parse_alignment_output(backward_output), and
\* store_alignments starts: successful = 0, failed = 0.
ParseBackward ==
  /\ pc = "parse_backward"
  /\ last_insert' = NoInsert
  /\ IF ParseRaises(temp_dir.backward_output)
     THEN Raise("parse")
     ELSE /\ backward_alignments' = parse_alignment_output(temp_dir.backward_output)
          /\ pc' = "store"
          /\ idx' = 1
          /\ successful' = 0
          /\ failed' = 0
          /\ UNCHANGED <<exc, batch_num, total_aligned, total_failed,
                         sentence_pairs, forward_alignments, temp_dir>>
  /\ UNCHANGED <<config, aligned, record_count, tracker, history, calls, scorer, parser>>

\* StorePair that takes the first backward entry for every pair.
StorePair_FirstBackwardEntry ==
  /\ pc = "store"
  /\ idx <= ZipLen(sentence_pairs, forward_alignments, backward_alignments)
  /\ \E inserted \in BOOLEAN :
       IF inserted
       THEN /\ last_insert' =
                 [called |-> TRUE,
                  record |-> AlignmentRecord(sentence_pairs[idx],
                                             forward_alignments[idx],
                                             backward_alignments[1])]
            /\ aligned' = aligned \cup {sentence_pairs[idx]}
            /\ record_count' = record_count + 1
            /\ successful' = successful + 1
            /\ failed' = failed
       ELSE /\ last_insert' = NoInsert
            /\ failed' = failed + 1
            /\ UNCHANGED <<aligned, record_count, successful>>
  /\ idx' = idx + 1
  /\ UNCHANGED <<pc, exc, config, locals, temp_dir, tracker, history, calls, scorer, parser>>

\* StorePair where a failed insertion ends the loop over the batch.
StorePair_FailureEndsLoop ==
  /\ pc = "store"
  /\ idx <= ZipLen(sentence_pairs, forward_alignments, backward_alignments)
  /\ \E inserted \in BOOLEAN :
       IF inserted
       THEN /\ last_insert' =
                 [called |-> TRUE,
                  record |-> AlignmentRecord(sentence_pairs[idx],
                                             forward_alignments[idx],
                                             backward_alignments[idx])]
            /\ aligned' = aligned \cup {sentence_pairs[idx]}
            /\ record_count' = record_count + 1
            /\ successful' = successful + 1
            /\ failed' = failed
            /\ idx' = idx + 1
       ELSE /\ last_insert' = NoInsert
            /\ failed' = failed + 1
            /\ idx' = ZipLen(sentence_pairs, forward_alignments,
                             backward_alignments) + 1
            /\ UNCHANGED <<aligned, record_count, successful>>
  /\ UNCHANGED <<pc, exc, config, locals, temp_dir, tracker, history, calls, scorer, parser>>

\* One iteration of the loop of store_alignments: the record is built and
\* insert_alignment is called; an exception it raises is caught and counted.
StorePair ==
  /\ pc = "store"
  /\ idx <= ZipLen(sentence_pairs, forward_alignments, backward_alignments)
  /\ \E inserted \in BOOLEAN :
       IF inserted
       THEN /\ last_insert' =
                 [called |-> TRUE,
                  record |-> AlignmentRecord(sentence_pairs[idx],
                                             forward_alignments[idx],
                                             backward_alignments[idx])]
            /\ aligned' = aligned \cup {sentence_pairs[idx]}
            /\ record_count' = record_count + 1
            /\ successful' = successful + 1
            /\ failed' = failed
       ELSE /\ last_insert' = NoInsert
            /\ failed' = failed + 1
            /\ UNCHANGED <<aligned, record_count, successful>>
  /\ idx' = idx + 1
  /\ UNCHANGED <<pc, exc, config, locals, temp_dir, tracker, history, calls, scorer, parser>>

\* StoreReturn without "total_aligned += successful".
StoreReturn_DropsSuccessful ==
  /\ pc = "store"
  /\ idx > ZipLen(sentence_pairs, forward_alignments, backward_alignments)
  /\ total_aligned' = total_aligned
  /\ total_failed' = total_failed + failed
  /\ pc' = "update"
  /\ last_insert' = NoInsert
  /\ UNCHANGED <<exc, config, batch_num, sentence_pairs, forward_alignments,
                 backward_alignments, store, temp_dir, aligned, record_count,
                 tracker, history, calls, scorer, parser>>

\* store_alignments returns (successful, failed); the totals are increased.
StoreReturn ==
  /\ pc = "store"
  /\ idx > ZipLen(sentence_pairs, forward_alignments, backward_alignments)
  /\ total_aligned' = total_aligned + successful
  /\ total_failed' = total_failed + failed
  /\ pc' = "update"
  /\ last_insert' = NoInsert
  /\ UNCHANGED <<exc, config, batch_num, sentence_pairs, forward_alignments,
                 backward_alignments, store, temp_dir, aligned, record_count,
                 tracker, history, calls, scorer, parser>>

\* UpdateProgress that reports the counts of the batch, not the totals.
UpdateProgress_BatchCounts ==
  /\ pc = "update"
  /\ run' = tracker_update_progress(run, successful + failed, successful,
                                    failed)
  /\ update_calls' = update_calls + 1
  /\ EndBatch
  /\ last_insert' = NoInsert
  /\ UNCHANGED <<exc, config, batch_num, total_aligned, total_failed,
                 sentence_pairs, aligned, record_count, start_calls,
                 complete_calls, history, calls, scorer, parser>>

\* tracker.update_progress(...), the last statement of the "with" block.
UpdateProgress ==
  /\ pc = "update"
  /\ run' = tracker_update_progress(run, total_aligned + total_failed,
                                    total_aligned, total_failed)
  /\ update_calls' = update_calls + 1
  /\ EndBatch
  /\ last_insert' = NoInsert
  /\ UNCHANGED <<exc, config, batch_num, total_aligned, total_failed,
                 sentence_pairs, aligned, record_count, start_calls,
                 complete_calls, history, calls, scorer, parser>>

\* CompleteRun that can be taken a second time.
CompleteRun_Repeatable ==
  /\ pc = "complete"
  /\ run' = tracker_complete_run(run, "completed")
  /\ complete_calls' = complete_calls + 1
  /\ pc' = IF complete_calls = 0 THEN "complete" ELSE "done"
  /\ LeaveRun
  /\ last_insert' = NoInsert
  /\ UNCHANGED <<exc, config, aligned, record_count, start_calls,
                 update_calls, history, calls, scorer, parser>>

\* tracker.complete_run(status='completed'), after the loop.
CompleteRun ==
  /\ pc = "complete"
  /\ run' = tracker_complete_run(run, "completed")
  /\ complete_calls' = complete_calls + 1
  /\ pc' = "done"
  /\ LeaveRun
  /\ last_insert' = NoInsert
  /\ UNCHANGED <<exc, config, aligned, record_count, start_calls,
                 update_calls, history, calls, scorer, parser>>

\* KeyboardInterrupt while run_pipeline runs: it is no Exception, so
\* store_alignments does not catch it; main logs it.
InRunPipeline ==
  pc \in {"start_run", "loop", "prepare", "forward", "backward",
          "parse_forward", "parse_backward", "store", "update", "complete"}

Interrupt ==
  /\ InRunPipeline
  /\ pc' = "interrupted"
  /\ exc' = "KeyboardInterrupt"
  /\ LeaveRun
  /\ last_insert' = NoInsert
  /\ UNCHANGED <<config, aligned, record_count, tracker, history, calls, scorer, parser>>

Next ==
  \/ Construct
  \/ StartRun
  \/ ReachMaxBatches
  \/ FetchBatch
  \/ PrepareInput
  \/ RunForward
  \/ RunBackward
  \/ ParseForward
  \/ ParseBackward
  \/ StorePair
  \/ StoreReturn
  \/ UpdateProgress
  \/ CompleteRun
  \/ Interrupt

Spec == Init /\ [][Next]_vars

\* ------------------------------- calculate_alignment_score taken alone

SeqsUpTo(S, n) == UNION {[1..k -> S] : k \in 0..n}

\* The orchestrator, not started.
OrchestratorIdle ==
  /\ pc = "idle"
  /\ exc = "none"
  /\ batch_size = 1
  /\ max_batches = None
  /\ batch_num = 0
  /\ total_aligned = 0
  /\ total_failed = 0
  /\ sentence_pairs = <<>>
  /\ forward_alignments = <<>>
  /\ backward_alignments = <<>>
  /\ idx = 0
  /\ successful = 0
  /\ failed = 0
  /\ temp_dir = NoDir
  /\ aligned = {}
  /\ record_count = 0
  /\ last_insert = NoInsert
  /\ run = NoRun
  /\ start_calls = 0
  /\ update_calls = 0
  /\ complete_calls = 0
  /\ failed_pairs = {}
  /\ aligner_succeeded = FALSE
  /\ fetch_log = <<>>
  /\ aligner_calls = 0
  /\ invocations = <<>>

\* Any forward alignment the parser can return (index pairs, repeated or
\* not, in range or not) and any two token counts.
InitScore ==
  /\ OrchestratorIdle
  /\ ParserIdle
  /\ sc_pc = "call"
  /\ sc_alignments \in
       SeqsUpTo((0..MaxScoreSrcIndex) \X (0..MaxScoreTgtIndex), MaxScoreAlign)
  /\ sc_src_length \in 0..MaxScoreTokens
  /\ sc_tgt_length \in 0..MaxScoreTokens
  /\ sc_result = 0

ScoreCall ==
  /\ sc_pc = "call"
  /\ sc_result' =
       calculate_alignment_score(sc_alignments, sc_src_length, sc_tgt_length)
  /\ sc_pc' = "done"
  /\ UNCHANGED <<pc, exc, config, locals, store, temp_dir, storage, tracker,
                 history, calls, parser, sc_alignments, sc_src_length,
                 sc_tgt_length>>

NextScore == ScoreCall

SpecScore == InitScore /\ [][NextScore]_vars

\* ---------------------------------- parse_alignment_output taken alone

\* Tokens of an output line: three well-formed ones, one without separator,
\* one with two separators, one with a non-numeric component.
ParseTokenPool ==
  {<<"0", "-", "1">>, <<"2", "-", "3">>, <<"1", "0", "-", "2">>, <<"1">>,
   <<"0", "-", "1", "-", "2">>, <<"0", "-", "x">>}

\* Lines of an output file: blank, whitespace only, one token, two tokens.
ParseLinePool ==
  {<<>>, <<" ">>} \cup ParseTokenPool
    \cup {t1 \o <<" ">> \o t2 : t1 \in ParseTokenPool, t2 \in ParseTokenPool}

\* Largest number of lines of the file.
MaxParseLines == 2

InitParse ==
  /\ OrchestratorIdle
  /\ ScorerIdle
  /\ pa_pc = "call"
  /\ pa_file \in SeqsUpTo(ParseLinePool, MaxParseLines)
  /\ pa_raised = FALSE
  /\ pa_result = <<>>

\* A ValueError leaves parse_alignment_output before "return alignments".
ParseCall ==
  /\ pa_pc = "call"
  /\ pa_raised' = ParseRaises(pa_file)
  /\ pa_result' = IF ParseRaises(pa_file) THEN <<>>
                  ELSE parse_alignment_output(pa_file)
  /\ pa_pc' = "done"
  /\ UNCHANGED <<pc, exc, config, locals, store, temp_dir, storage, tracker,
                 history, calls, scorer, pa_file>>

NextParse == ParseCall

SpecParse == InitParse /\ [][NextParse]_vars

\* ----------------------------------------------------------------- claims

Unaligned == Pairs \ aligned

BatchPairs == {sentence_pairs[i] : i \in 1..Len(sentence_pairs)}

\* C1: calculate_alignment_score returns a value in [0, 1] for every list of
\* non-negative index pairs and every two token counts >= 0.
C1_ScoreInUnitInterval ==
  sc_pc = "done" => (0 <= sc_result /\ sc_result <= ScoreScale)

\* C2 (as claimed): in every reachable state of a run the number of
\* AlignmentRecords inserted by the run is at most the items_succeeded last
\* recorded on the PipelineRun.
C2_RecordsWithinRecordedSucceeded ==
  record_count <= run.items_succeeded

\* C2 (amended): between batches and after the loop the records inserted by
\* the run equal the items_succeeded last recorded; while a batch is stored
\* they exceed it by exactly the insertions of that batch made so far, and
\* never by more than the batch size.
C2_RecordsWithinSucceededPerBatch ==
  /\ pc \in {"loop", "prepare", "forward", "backward", "parse_forward",
             "parse_backward", "complete", "done"}
       => record_count = run.items_succeeded
  /\ pc \in {"store", "update"}
       => record_count = run.items_succeeded + successful
  /\ record_count <= run.items_succeeded + batch_size

\* C2 witness: a second batch is being stored, two of its pairs inserted,
\* while the PipelineRun still records the first batch only.
C2_Witness ==
  /\ pc = "store"
  /\ successful = 2
  /\ run.items_succeeded >= 1
  /\ record_count = run.items_succeeded + 2

\* C3: after every non-empty batch, failed at the aligner or not,
\* update_progress has been called once with the cumulative totals before the
\* next batch is fetched.
C3_ProgressAfterEveryBatch ==
  pc = "loop" =>
    /\ update_calls = batch_num
    /\ run.items_processed = total_aligned + total_failed
    /\ run.items_succeeded = total_aligned
    /\ run.items_failed = total_failed

\* C4: every PipelineRun that was started is finalized exactly once on every
\* path out of run_pipeline (loop exit, an exception, a user interrupt) and
\* does not stay in status running.
C4_RunFinalizedExactlyOnce ==
  (pc \in {"done", "raised", "interrupted"} /\ start_calls = 1)
    => (complete_calls = 1 /\ run.status # "running")

\* C5: when the forward invocation succeeded and the backward invocation
\* fails, no AlignmentRecord is inserted for the batch, the failed counter of
\* the PipelineRun grows by the batch size, and the next batch is fetched.
C5_BackwardFailureCounted ==
  [][(pc = "backward" /\ pc' \in {"loop", "raised"})
       => /\ pc' = "loop"
          /\ record_count' = record_count
          /\ run'.items_failed = run.items_failed + Len(sentence_pairs)]_vars

\* C6: a malformed token in either output file is handled like a failed
\* batch: its pairs are counted failed, no record is inserted, and the run
\* goes on with the next batch.
C6_ParseFailureFailsBatchOnly ==
  [][(\/ pc = "parse_forward" /\ pc' # "interrupted"
         /\ ParseRaises(temp_dir.forward_output)
      \/ pc = "parse_backward" /\ pc' # "interrupted"
         /\ ParseRaises(temp_dir.backward_output))
       => /\ pc' = "loop"
          /\ total_failed' = total_failed + Len(sentence_pairs)
          /\ record_count' = record_count]_vars

\* C7: the parsed alignments that store_alignments consumes have exactly one
\* entry per pair of the batch.
C7_ParsedLengthEqualsBatch ==
  pc = "store" =>
    /\ Len(forward_alignments) = Len(sentence_pairs)
    /\ Len(backward_alignments) = Len(sentence_pairs)

\* C8: run_fast_align never raises: no exception of an aligner invocation
\* leaves run_pipeline.
C8_RunFastAlignNeverRaises ==
  exc # "launch"

\* C9: within one run, the pairs of a batch that failed at an aligner
\* invocation are not fed to the aligner again.
C9_FailedBatchNotRetried ==
  pc = "forward" => BatchPairs \cap failed_pairs = {}

\* C10: with no maximum batch count, at least one unaligned pair and every
\* aligner invocation failing, run_pipeline never terminates (storage and
\* user leaving it alone).
C10_AlwaysFailingNeverTerminates ==
  (/\ max_batches = None
   /\ ~aligner_succeeded
   /\ Unaligned # {}
   /\ exc \notin {"fetch", "KeyboardInterrupt"})
    => pc \notin {"done", "raised", "interrupted"}

\* C11: the loop stops at the first fetch that returns no pairs; with a
\* maximum batch count N >= 1 it makes at most N fetches, whatever the
\* outcome of each batch; in both cases complete_run is the next thing
\* run_pipeline does.
C11_LoopStops ==
  [][/\ max_batches >= 1 => Len(fetch_log') <= max_batches
     /\ \A i \in 1..(Len(fetch_log') - 1) : fetch_log'[i] > 0
     /\ (fetch_log' # fetch_log /\ fetch_log'[Len(fetch_log')] = 0)
          => pc' = "complete"
     /\ (pc = "loop" /\ MaxBatchesReached /\ pc' # "interrupted")
          => pc' = "complete"
     /\ (pc = "complete" /\ pc' # "interrupted")
          => (pc' = "done" /\ complete_calls' = complete_calls + 1)]_vars

\* C11 witness: the cap of two batches stops the loop after a failed batch
\* while unaligned pairs are left.
C11_Witness ==
  /\ pc = "complete"
  /\ max_batches = 2
  /\ Len(fetch_log) = 2
  /\ fetch_log[2] > 0
  /\ failed_pairs # {}
  /\ Unaligned # {}

\* C12: when the first fetch returns no pair, there is no aligner invocation
\* and no insertion, and the run ends completed with all counts zero.
C12_EmptyFirstFetch ==
  (fetch_log # <<>> /\ fetch_log[1] = 0) =>
    /\ pc \in {"complete", "done", "interrupted"}
    /\ Len(fetch_log) = 1
    /\ aligner_calls = 0
    /\ record_count = 0
    /\ update_calls = 0
    /\ run.items_processed = 0
    /\ run.items_succeeded = 0
    /\ run.items_failed = 0
    /\ pc = "done" => (run.status = "completed" /\ complete_calls = 1)

\* C12 witness: a run that ended after an empty first fetch.
C12_Witness ==
  pc = "done" /\ fetch_log = <<0>> /\ run.status = "completed"

\* C13: whenever run_pipeline has left the batch loop after batch-level
\* errors (aligner failures, parse failures), the run is finalized with
\* status completed.
C13_LoopExitCompletes ==
  (pc \in {"done", "raised"} /\ exc \in {"none", "launch", "parse"}
   /\ start_calls = 1)
    => (complete_calls = 1 /\ run.status = "completed")

\* C14: in store_alignments a failed insertion is counted as one failed pair
\* and the loop goes on: after i entries, successful + failed = i and the
\* records inserted are the successful ones; the totals grow by the pair
\* (n - k, k) returned for n entries with k failed insertions.
C14_InsertFailureCounted ==
  [][pc = "store" =>
       LET n == ZipLen(sentence_pairs, forward_alignments,
                       backward_alignments)
       IN /\ successful + failed = idx - 1
          /\ idx <= n =>
               \/ pc' = "interrupted"
               \/ /\ pc' = "store"
                  /\ idx' = idx + 1
                  /\ successful' + failed' = idx
                  /\ record_count' - record_count = successful' - successful
                  /\ failed' = failed + 1 <=> ~last_insert'.called
          /\ pc' = "update" =>
               /\ idx = n + 1
               /\ failed = n - successful
               /\ total_aligned' = total_aligned + (n - failed)
               /\ total_failed' = total_failed + failed
               /\ record_count' = record_count]_vars

\* C14 witness: in a batch of two the first insertion failed and the second
\* pair has just been inserted.
C14_Witness ==
  /\ pc = "store"
  /\ idx = 3
  /\ failed = 1
  /\ successful = 1
  /\ last_insert.called
  /\ last_insert.record.purepecha_sentence_id = sentence_pairs[2]

\* The number of '-' in a token.
CountSeparators(tok) == Cardinality({i \in 1..Len(tok) : tok[i] = "-"})

\* A token that is not "digits-digits".
MalformedToken(tok) ==
  \/ CountSeparators(tok) # 1
  \/ LET k == CHOOSE i \in 1..Len(tok) : tok[i] = "-"
     IN \/ k = 1
        \/ k = Len(tok)
        \/ \E i \in (1..Len(tok)) \ {k} : tok[i] \notin Digits

\* C15: parse_alignment_output raises exactly when some token of the file is
\* malformed (no '-', more than one '-', a non-numeric component), and then
\* returns no list at all; otherwise it returns one entry per line.
C15_MalformedTokenFailsParse ==
  pa_pc = "done" =>
    /\ pa_raised <=>
         \E i \in 1..Len(pa_file) :
           LET toks == SplitWhitespace(Strip(pa_file[i]))
           IN \E j \in 1..Len(toks) : MalformedToken(toks[j])
    /\ pa_raised => pa_result = <<>>
    /\ ~pa_raised => Len(pa_result) = Len(pa_file)

\* C15 witness: a well-formed first line, then a line whose second token has
\* no separator: the parse has raised.
C15_Witness ==
  /\ pa_pc = "done"
  /\ pa_raised
  /\ pa_file = << <<"0", "-", "1">>, <<"0", "-", "1", " ", "1">> >>

\* C16: the score is exactly 0.0, labelled raw, when the forward alignment
\* is empty or either token count is zero.
C16_DegenerateScoreIsZero ==
  (sc_pc = "done"
   /\ (sc_alignments = <<>> \/ sc_src_length = 0 \/ sc_tgt_length = 0))
    => (sc_result = 0 /\ quality_status(sc_result) = "raw")

\* C16 witness: alignments and source tokens, but no target token.
C16_Witness ==
  /\ sc_pc = "done"
  /\ sc_alignments # <<>>
  /\ sc_src_length > 0
  /\ sc_tgt_length = 0
  /\ sc_result = 0

\* C17: every record handed to insert_alignment is labelled auto_aligned
\* when its rounded score is at least 0.7 and raw otherwise.
C17_LabelFollowsThreshold ==
  last_insert.called =>
    /\ last_insert.record.quality_status \in {"auto_aligned", "raw"}
    /\ last_insert.record.quality_status = "auto_aligned"
         <=> 10 * last_insert.record.alignment_score >= 7 * ScoreScale

\* C17 witness: a record with the score 0.525, labelled raw.
C17_Witness ==
  /\ last_insert.called
  /\ last_insert.record.alignment_score = 5250
  /\ last_insert.record.quality_status = "raw"

\* C18: outside the degenerate cases the score is
\* 0.5 * coverage + 0.3 * density + 0.2 * lengthRatio rounded to four
\* decimals; three source tokens, two target tokens and the alignment
\* {(0,0), (1,1), (2,1)} give 0.7833, labelled auto_aligned.
C18_WeightedScore ==
  (sc_pc = "done" /\ sc_alignments # <<>> /\ sc_src_length > 0
   /\ sc_tgt_length > 0)
    => LET s == sc_src_length
           t == sc_tgt_length
           k == Len(sc_alignments)
           a == Cardinality({sc_alignments[i][1] : i \in 1..k})
           mx == IF s >= t THEN s ELSE t
           mn == IF s >= t THEN t ELSE s
           \* 20 * s * mx times the three weighted terms
           coverage == 10 * a * mx
           density == 3 * (IF k <= 2 * s THEN k ELSE 2 * s) * mx
           lengthRatio == 4 * mn * s
           exact == ScoreScale * (coverage + density + lengthRatio)
           got == sc_result * 20 * s * mx
       IN /\ 2 * (got - exact) <= 20 * s * mx
          /\ 2 * (exact - got) <= 20 * s * mx
          /\ (s = 3 /\ t = 2 /\ sc_alignments = <<<<0, 0>>, <<1, 1>>, <<2, 1>>>>)
               => (sc_result = 7833
                   /\ quality_status(sc_result) = "auto_aligned")

\* C18 witness: the example of the claim has been scored.
C18_Witness ==
  /\ sc_pc = "done"
  /\ sc_src_length = 3
  /\ sc_tgt_length = 2
  /\ sc_alignments = <<<<0, 0>>, <<1, 1>>, <<2, 1>>>>
  /\ sc_result = 7833

\* C19: when the executable is not found at construction the program aborts
\* there: no start_run, no fetch, no aligner invocation on a batch.
C19_NotFoundAbortsBeforeRun ==
  /\ exc = "not_found" =>
       /\ pc = "aborted"
       /\ start_calls = 0
       /\ run = NoRun
       /\ fetch_log = <<>>
       /\ aligner_calls = 0
       /\ record_count = 0
  /\ pc = "aborted" => exc = "not_found"

\* C19 witness: the program has aborted at construction.
C19_Witness == pc = "aborted" /\ exc = "not_found"

\* C20: start_run is called once and before any other tracker call, every
\* update_progress finds the run running, complete_run is called at most
\* once, and no tracker call follows it.
C20_TrackerLifecycle ==
  [][/\ start_calls' <= 1
     /\ complete_calls' <= 1
     /\ (update_calls' > 0 \/ complete_calls' > 0) => start_calls = 1
     /\ start_calls' # start_calls => run.status = "created"
     /\ update_calls' # update_calls => run.status = "running"
     /\ complete_calls' # complete_calls => run.status = "running"
     /\ complete_calls = 1 => tracker' = tracker
     /\ pc' = "done" => start_calls' = 1]_vars

\* C20 witness: a finished run with two progress updates and one
\* complete_run.
C20_Witness ==
  /\ pc = "done"
  /\ start_calls = 1
  /\ update_calls = 2
  /\ complete_calls = 1
  /\ run.status = "completed"

\* C21: within a batch the aligner is invoked at most once per direction,
\* forward first; the backward invocation is made only after the forward
\* one returned success; parsing and storing start only after both
\* invocations succeeded.
C21_ForwardThenBackward ==
  /\ \/ invocations = <<>>
     \/ /\ Len(invocations) = 1
        /\ ~invocations[1].reverse
     \/ /\ Len(invocations) = 2
        /\ ~invocations[1].reverse
        /\ invocations[1].result = "ok"
        /\ invocations[2].reverse
  /\ pc \in {"parse_forward", "parse_backward", "store", "update"} =>
       /\ Len(invocations) = 2
       /\ invocations[1].result = "ok"
       /\ invocations[2].result = "ok"

\* C21 witness: the next batch is about to be fetched after a batch whose
\* forward invocation failed: no backward invocation was made for it.
C21_Witness ==
  /\ pc = "loop"
  /\ invocations = <<[reverse |-> FALSE, result |-> "nonzero"]>>
  /\ failed_pairs # {}

\* C22: the temporary directory of a batch exists only during that batch:
\* it is gone when the next batch is fetched and when the run is completed,
\* after a stored batch and after an abandoned one.
C22_TempDirScopedToBatch ==
  /\ pc \in {"loop", "complete", "done"} => ~temp_dir.exists
  /\ temp_dir.exists =>
       pc \in {"forward", "backward", "parse_forward", "parse_backward",
               "store", "update"}

\* C22 witness: the loop is back at its top after a batch abandoned at the
\* backward invocation, and the directory is gone.
C22_Witness ==
  /\ pc = "loop"
  /\ Len(invocations) = 2
  /\ invocations[2].result = "nonzero"
  /\ ~temp_dir.exists

\* C23: every forward entry of an inserted record has both indices within
\* the token counts of its pair; the out-of-range entries of the parsed
\* forward alignment are left out and the pair is inserted all the same.
C23_ForwardEntriesInRange ==
  last_insert.called =>
    LET pair == last_insert.record.purepecha_sentence_id
        ns == Len(SplitWhitespace(purepecha_text(pair)))
        nt == Len(SplitWhitespace(spanish_text(pair)))
        parsed == forward_alignments[idx - 1]
        kept == {i \in 1..Len(parsed) : parsed[i][1] < ns /\ parsed[i][2] < nt}
        fwd == last_insert.record.word_alignments.forward
    IN /\ \A j \in 1..Len(fwd) : fwd[j].src_idx < ns /\ fwd[j].tgt_idx < nt
       /\ Len(fwd) = Cardinality(kept)
       /\ pair \in aligned
       /\ successful >= 1

\* C23 witness: a pair of one source and one target token whose parsed
\* forward alignment "0-1 1-0" has no entry in range is inserted with an
\* empty forward list.
C23_Witness ==
  /\ last_insert.called
  /\ last_insert.record.purepecha_sentence_id = 2
  /\ Len(forward_alignments[idx - 1]) = 2
  /\ last_insert.record.word_alignments.forward = <<>>

\* C24: the stored backward list is the parsed backward entry with each
\* pair swapped, in the same order and of the same length; the stored
\* forward list is the in-range part of the parsed forward entry alone.
C24_BackwardSwappedOnly ==
  last_insert.called =>
    LET pair == last_insert.record.purepecha_sentence_id
        ns == Len(SplitWhitespace(purepecha_text(pair)))
        nt == Len(SplitWhitespace(spanish_text(pair)))
        InRange(e) == e[1] < ns /\ e[2] < nt
        fromForward == SelectSeq(forward_alignments[idx - 1], InRange)
        parsed == backward_alignments[idx - 1]
        fwd == last_insert.record.word_alignments.forward
        bwd == last_insert.record.word_alignments.backward
    IN /\ Len(bwd) = Len(parsed)
       /\ \A j \in 1..Len(parsed) :
            bwd[j].src_idx = parsed[j][2] /\ bwd[j].tgt_idx = parsed[j][1]
       /\ Len(fwd) = Len(fromForward)
       /\ \A j \in 1..Len(fwd) :
            <<fwd[j].src_idx, fwd[j].tgt_idx>> = fromForward[j]

\* C24 witness: the parsed backward entry (0,1),(1,0) is stored as
\* (1,0),(0,1) next to an empty forward list.
C24_Witness ==
  /\ last_insert.called
  /\ backward_alignments[idx - 1] = <<<<0, 1>>, <<1, 0>>>>
  /\ forward_alignments[idx - 1] = <<>>
  /\ last_insert.record.word_alignments.backward =
       <<[src_idx |-> 1, tgt_idx |-> 0], [src_idx |-> 0, tgt_idx |-> 1]>>
  /\ last_insert.record.word_alignments.forward = <<>>

\* C25: line i of the aligner input is built from pair i of the batch, and
\* the record inserted for pair i is computed from entry i of the parsed
\* forward and entry i of the parsed backward alignment.
C25_PositionIsJoinKey ==
  /\ temp_dir.exists =>
       /\ Len(temp_dir.input_file) = Len(sentence_pairs)
       /\ \A i \in 1..Len(sentence_pairs) :
            temp_dir.input_file[i] =
              purepecha_text(sentence_pairs[i]) \o <<" ", "|", "|", "|", " ">>
                \o spanish_text(sentence_pairs[i])
  /\ last_insert.called =>
       last_insert.record =
         AlignmentRecord(sentence_pairs[idx - 1], forward_alignments[idx - 1],
                         backward_alignments[idx - 1])

\* C25 witness: the second pair of a batch whose parsed entries differ from
\* one position to the other has been inserted.
C25_Witness ==
  /\ last_insert.called
  /\ idx = 3
  /\ forward_alignments[1] # forward_alignments[2]
  /\ backward_alignments[1] # backward_alignments[2]
  /\ forward_alignments[2] # backward_alignments[2]

\* C26: parse_alignment_output returns one entry per line, in line order: a
\* line of k tokens 'a-b' gives the k pairs (a, b) in token order, "0-1 2-3"
\* gives (0,1),(2,3), and a blank or whitespace-only line gives an empty
\* entry at its own position.
C26_OneEntryPerLine ==
  (pa_pc = "done" /\ ~pa_raised) =>
    /\ Len(pa_result) = Len(pa_file)
    /\ \A i \in 1..Len(pa_file) :
         LET line == pa_file[i]
             toks == SplitWhitespace(Strip(line))
         IN /\ (\A c \in 1..Len(line) : line[c] \in Whitespace)
                 => pa_result[i] = <<>>
            /\ Len(pa_result[i]) = Len(toks)
            /\ \A j \in 1..Len(toks) :
                 /\ Len(toks[j]) = 3 =>
                      pa_result[i][j] =
                        <<DigitValue(toks[j][1]), DigitValue(toks[j][3])>>
                 /\ toks[j] = <<"1", "0", "-", "2">> =>
                      pa_result[i][j] = <<10, 2>>
            /\ line = <<"0", "-", "1", " ", "2", "-", "3">> =>
                 pa_result[i] = <<<<0, 1>>, <<2, 3>>>>

\* C26 witness: a whitespace-only line followed by "0-1 2-3" has been parsed
\* into an empty entry and the two pairs.
C26_Witness ==
  /\ pa_pc = "done"
  /\ ~pa_raised
  /\ pa_file = << <<" ">>, <<"0", "-", "1", " ", "2", "-", "3">> >>
  /\ pa_result = << <<>>, <<<<0, 1>>, <<2, 3>>>> >>

\* C27: for every batch whose two invocations and two parses succeeded, the
\* sum of the succeeded and failed totals grows by exactly the batch size.
C27_EveryPairCountedOnce ==
  [][(pc = "store" /\ pc' = "update") =>
       total_aligned' + total_failed'
         = total_aligned + total_failed + Len(sentence_pairs)]_vars

\* C28: when the run is about to be marked completed, the counts last
\* recorded on the PipelineRun equal the cumulative totals of the loop.
C28_CompletedCountsEqualTotals ==
  pc = "complete" =>
    /\ run.items_processed = total_aligned + total_failed
    /\ run.items_succeeded = total_aligned
    /\ run.items_failed = total_failed

\* C29: every update_progress call supplies items_processed =
\* items_succeeded + items_failed, and from one call to the next none of
\* the three values decreases.
C29_ProgressTotalsConsistent ==
  [][update_calls' # update_calls =>
       /\ run'.items_processed = run'.items_succeeded + run'.items_failed
       /\ run'.items_processed = total_aligned + total_failed
       /\ run'.items_processed >= run.items_processed
       /\ run'.items_succeeded >= run.items_succeeded
       /\ run'.items_failed >= run.items_failed]_vars

\* C29 witness: two progress updates were made, the second after a batch
\* smaller than the first, with succeeded and failed pairs recorded.
C29_Witness ==
  /\ update_calls = 2
  /\ fetch_log = <<2, 1>>
  /\ run.items_succeeded > 0
  /\ run.items_failed > 0
  /\ run.items_processed = 3

====
